---- MODULE Spec2Model ----
(***************************************************************************)
(* The generic tag association of tags/models.py (Tag, TaggedItem with a   *)
(* cascading foreign key to Tag and a generic foreign key made of          *)
(* content_type + object_id) over the tables of store/models.py, and the   *)
(* five store operations tag, untag, tagsFor, itemsFor, resolve expressed  *)
(* as ORM calls on those tables.                                           *)
(***************************************************************************)
EXTENDS Integers, FiniteSets, Sequences, Bags, TLC

VARIABLES
    Tag,          \* rows of tags.Tag: records [id, lable]
    TaggedItem,   \* rows of tags.TaggedItem: [id, tag_id, content_type, object_id]
    Product,      \* primary keys of the rows of store.Product
    Customer,     \* primary keys of the rows of store.Customer
    nextTagId,    \* AutoField sequence of Tag
    nextItemId,   \* AutoField sequence of TaggedItem
    last,         \* the latest call: [op, args, err, val]
    pending,      \* per caller: the tag() request issued and not yet executed
    Collection,   \* primary keys of the rows of store.Collection
    Product_collection, \* column Product.collection: product pk -> collection pk
    inventory,    \* column Product.inventory: product pk -> integer
    Product_Promotions, \* rows of the Product.Promotions table: [product, promotion]
    Promotion,    \* rows of store.Promotion: [id, products]
    Order,        \* rows of store.Order: [id, customer]
    OrderItem,    \* rows of store.OrderItem: [id, order, product]
    Cart,         \* primary keys of the rows of store.Cart
    CartItem,     \* rows of store.CartItem: [id, cart, product]
    Address       \* rows of store.Address: [id, customer]

(* The columns and tables of store/models.py that the tag store never reads *)
ShopVars == <<Collection, Product_collection, inventory, Product_Promotions,
              Promotion, Order, OrderItem, Cart, CartItem, Address>>

vars == <<Tag, TaggedItem, Product, Customer, nextTagId, nextItemId, last, pending,
          ShopVars>>

----------------------------------------------------------------------------
(* Bounds of the model *)

MaxTags == 2
MaxItems == 2
MaxInventory == 12
MaxStoreRows == 7

(* Inputs *)

Labels == {"sale"}
TargetIds == {7, 42}
Callers == {"c1", "c2"}
Triple(t, ct, oid) == [tag_id |-> t, content_type |-> ct, object_id |-> oid]
None == Triple(0, "", 0)

(* django_content_type: one row per installed model that is used as a tag
   target here; "video" is a target type named by the comment of
   TaggedItem that has no model, hence no ContentType row. *)
ContentType == {"product", "customer"}
TargetTypes == ContentType \cup {"video"}

TagIds == 1..MaxTags

----------------------------------------------------------------------------
(* Storage layer: what the model declarations make the database do *)

TagPks == {t.id : t \in Tag}

(* The table behind a content type *)
ModelClass(ct) == IF ct = "product" THEN Product ELSE Customer

(* object_id = models.PositiveIntegerField() *)
PositiveIntegerField(n) == n >= 0

(* Mutation: the column declared with db_constraint=False, nothing checks
   that the referenced Tag row exists *)
TagForeignKeyOk_NoConstraint(tag_id) == TRUE

(* tag = models.ForeignKey(Tag, ...): the referenced row must exist *)
TagForeignKeyOk(tag_id) == tag_id \in TagPks

(* Mutation: an unknown content type is taken as one that has no rows *)
ContentTypeForeignKeyOk_Unchecked(ct) == TRUE

(* content_type = models.ForeignKey(ContentType, ...) *)
ContentTypeForeignKeyOk(ct) == ct \in ContentType

(* Mutation: the "poor way" of the commented-out line, a plain reference to
   Product with no content_type discriminator *)
NewTaggedItem_ProductOnly(id, tag_id, ct, oid) ==
    [id |-> id, tag_id |-> tag_id, content_type |-> "product", object_id |-> oid]

(* The row TaggedItem(tag_id=.., content_type=.., object_id=..) saves *)
NewTaggedItem(id, tag_id, ct, oid) ==
    [id |-> id, tag_id |-> tag_id, content_type |-> ct, object_id |-> oid]

(* TaggedItem declares no Meta: no unique_together, no UniqueConstraint.
   An insert is refused only by the column constraints. *)
InsertAllowed(tag_id, ct, oid) ==
    /\ TagForeignKeyOk(tag_id)
    /\ ContentTypeForeignKeyOk(ct)
    /\ PositiveIntegerField(oid)

(* Mutation: on_delete=models.DO_NOTHING *)
TagCascade_DoNothing(tag_id) == {}

(* Mutation: the cascade collects the rows of every tag *)
TagCascade_AllRows(tag_id) == TaggedItem

(* on_delete=models.CASCADE on TaggedItem.tag: the rows the collector
   deletes together with Tag row tag_id *)
TagCascade(tag_id) == {r \in TaggedItem : r.tag_id = tag_id}

(* TaggedItem.objects.filter(content_type=.., object_id=..) *)
FilterTarget(ct, oid) ==
    {r \in TaggedItem : r.content_type = ct /\ r.object_id = oid}

(* Mutation: the target model declares tags = GenericRelation(TaggedItem) *)
TargetCascade_GenericRelation(ct, oid) == FilterTarget(ct, oid)

(* Product (and Customer) declare no GenericRelation to TaggedItem, so the
   collector finds no TaggedItem row to delete with an entity row *)
TargetCascade(ct, oid) == {}

(* Mutation: the filter leaves out the content_type column *)
FilterTriple_NoType(tag_id, ct, oid) ==
    {r \in TaggedItem : r.tag_id = tag_id /\ r.object_id = oid}

(* Mutation: only the first matching row (lowest id) is selected *)
FilterTriple_First(tag_id, ct, oid) ==
    {r \in TaggedItem : /\ r.tag_id = tag_id
                        /\ r.content_type = ct
                        /\ r.object_id = oid
                        /\ \A q \in TaggedItem :
                              (/\ q.tag_id = tag_id
                               /\ q.content_type = ct
                               /\ q.object_id = oid) => r.id <= q.id}

(* TaggedItem.objects.filter(tag_id=.., content_type=.., object_id=..) *)
FilterTriple(tag_id, ct, oid) ==
    {r \in TaggedItem : /\ r.tag_id = tag_id
                        /\ r.content_type = ct
                        /\ r.object_id = oid}

(* TaggedItem.objects.filter(tag_id=.., content_type=..) *)
FilterTagType(tag_id, ct) ==
    {r \in TaggedItem : r.tag_id = tag_id /\ r.content_type = ct}

(* content_object = GenericForeignKey(): the row of the content type's
   model with pk = object_id, or None when there is no such row *)
content_object(ct, oid) ==
    [found |-> oid \in ModelClass(ct), content_type |-> ct, pk |-> oid]

----------------------------------------------------------------------------
(* Results *)

Ok(v) == [err |-> "none", val |-> v]
Err(e) == [err |-> e, val |-> 0]

Call(op, args, res) == [op |-> op, args |-> args, err |-> res.err, val |-> res.val]

(* The tags of the rows rs of a queryset, one per row, in no order *)
TagsBag(rs) ==
    [v \in {r.tag_id : r \in rs} |-> Cardinality({r \in rs : r.tag_id = v})]

(* The object ids of the rows rs of a queryset, one per row, in no order *)
ObjectsBag(rs) ==
    [v \in {r.object_id : r \in rs} |-> Cardinality({r \in rs : r.object_id = v})]

----------------------------------------------------------------------------
(* Lookups of the association store *)

(* tagsFor(target_type, target_id): one Tag per association row *)
tagsFor(ct, oid) ==
    IF ~ContentTypeForeignKeyOk(ct) THEN Err("ConfigurationError")
    ELSE Ok(TagsBag(FilterTarget(ct, oid)))

(* itemsFor(tag_id, target_type): one target_id per association row *)
itemsFor(tag_id, ct) ==
    IF ~ContentTypeForeignKeyOk(ct) THEN Err("ConfigurationError")
    ELSE Ok(ObjectsBag(FilterTagType(tag_id, ct)))

(* resolve(target_type, target_id): the entity, or "not found" *)
resolve(ct, oid) ==
    IF ~ContentTypeForeignKeyOk(ct) THEN Err("ConfigurationError")
    ELSE Ok(content_object(ct, oid))

----------------------------------------------------------------------------
Init ==
    /\ Tag = {}
    /\ TaggedItem = {}
    /\ Product = {}
    /\ Customer = {}
    /\ nextTagId = 1
    /\ nextItemId = 1
    /\ last = Call("init", None, Ok(0))
    /\ pending = [c \in Callers |-> None]
    /\ Collection = {}
    /\ Product_collection = <<>>
    /\ inventory = <<>>
    /\ Product_Promotions = {}
    /\ Promotion = {}
    /\ Order = {}
    /\ OrderItem = {}
    /\ Cart = {}
    /\ CartItem = {}
    /\ Address = {}

(* Tag.objects.create(lable=l) *)
createTag(l) ==
    /\ nextTagId <= MaxTags
    /\ Tag' = Tag \cup {[id |-> nextTagId, lable |-> l]}
    /\ nextTagId' = nextTagId + 1
    /\ last' = Call("createTag", Triple(nextTagId, "", 0), Ok(nextTagId))
    /\ UNCHANGED <<TaggedItem, Product, Customer, nextItemId, pending>>
    /\ UNCHANGED ShopVars

(* Tag.objects.get(pk=t).delete(): returns the number of TaggedItem rows
   deleted with it *)
deleteTag(t) ==
    /\ t \in TagPks
    /\ TaggedItem' = TaggedItem \ TagCascade(t)
    /\ Tag' = {x \in Tag : x.id # t}
    /\ last' = Call("deleteTag", Triple(t, "", 0),
                    Ok(Cardinality(TagCascade(t))))
    /\ UNCHANGED <<Product, Customer, nextTagId, nextItemId, pending>>
    /\ UNCHANGED ShopVars

(* The effect of one tag(tag_id, target_type, target_id) call *)
TagResult(tag_id, ct, oid) ==
    IF ~TagForeignKeyOk(tag_id) THEN Err("NotFoundError")
    ELSE IF ~ContentTypeForeignKeyOk(ct) THEN Err("ConfigurationError")
    ELSE IF ~InsertAllowed(tag_id, ct, oid) THEN Err("IntegrityError")
    ELSE Ok(nextItemId)

DoTag(tag_id, ct, oid) ==
    LET res == TagResult(tag_id, ct, oid) IN
    /\ res.err = "none" => nextItemId <= MaxItems
    /\ IF res.err = "none"
       THEN /\ TaggedItem' = TaggedItem \cup
                             {NewTaggedItem(nextItemId, tag_id, ct, oid)}
            /\ nextItemId' = nextItemId + 1
       ELSE UNCHANGED <<TaggedItem, nextItemId>>
    /\ last' = Call("tag", Triple(tag_id, ct, oid), res)
    /\ UNCHANGED <<Tag, Product, Customer, nextTagId>>
    /\ UNCHANGED ShopVars

tag(tag_id, ct, oid) ==
    /\ DoTag(tag_id, ct, oid)
    /\ UNCHANGED pending

(* untag: TaggedItem.objects.filter(...).delete(), true when rows went *)
untag(tag_id, ct, oid) ==
    /\ TaggedItem' = TaggedItem \ FilterTriple(tag_id, ct, oid)
    /\ last' = Call("untag", Triple(tag_id, ct, oid),
                    Ok(FilterTriple(tag_id, ct, oid) # {}))
    /\ UNCHANGED <<Tag, Product, Customer, nextTagId, nextItemId, pending>>
    /\ UNCHANGED ShopVars

(* The tables of store/models.py: rows are created with an explicit primary
   key and deleted with Model.delete(), whose collector follows every
   foreign key that points to the row. *)

Pks == {1, 2}
(* The one Collection the clients of the tag store file products under *)
CatalogPks == {1}
NULL == 0
Row(model, pk) == [model |-> model, pk |-> pk]

(* Number of rows in the store tables *)
StoreRows ==
    Cardinality(Collection) + Cardinality(Product) + Cardinality(Customer)
    + Cardinality(Promotion) + Cardinality(Order) + Cardinality(OrderItem)
    + Cardinality(Cart) + Cardinality(CartItem) + Cardinality(Address)
    + Cardinality(Product_Promotions)

Ids(rows) == {r.id : r \in rows}

(* Rows that reference a row through each foreign key *)
Collection_product_set(c) == {q \in Product : Product_collection[q] = c}
Customer_order_set(cu) == {r \in Order : r.customer = cu}
Customer_address_set(cu) == {r \in Address : r.customer = cu}
Order_orderitem_set(o) == {r \in OrderItem : r.order = o}
Product_orderitem_set(q) == {r \in OrderItem : r.product = q}
Product_cartitem_set(q) == {r \in CartItem : r.product = q}
Cart_cartitem_set(c) == {r \in CartItem : r.cart = c}
Product_promotion_refs(q) == {r \in Promotion : r.products = q}
Product_promotions_rows(q) == {r \in Product_Promotions : r.product = q}
Promotion_products_rows(pr) == {r \in Product_Promotions : r.promotion = pr}

(* Mutation: OrderItem.product declared on_delete=models.DO_NOTHING *)
ProductProtectedBy_DoNothing(q) == {}

(* on_delete=models.PROTECT: the rows that make the collector raise
   ProtectedError *)
CollectionProtectedBy(c) == Collection_product_set(c)
CustomerProtectedBy(cu) == Customer_order_set(cu)
OrderProtectedBy(o) == Order_orderitem_set(o)
ProductProtectedBy(q) == Product_orderitem_set(q)

(* on_delete=models.CASCADE: the rows the collector deletes with the row *)
CustomerCascade(cu) == Customer_address_set(cu)
CartCascade(c) == Cart_cartitem_set(c)
ProductCascade(q) == Product_cartitem_set(q)

(* on_delete=models.SET_NULL on Promotion.products *)
ProductSetNull(q) ==
    (Promotion \ Product_promotion_refs(q))
    \cup {[r EXCEPT !.products = NULL] : r \in Product_promotion_refs(q)}

(* A function without the key k *)
Without(f, k) == [x \in DOMAIN f \ {k} |-> f[x]]
(* A function with the key k set to v *)
With(f, k, v) == [x \in DOMAIN f \cup {k} |-> IF x = k THEN v ELSE f[x]]

TagStoreVars == <<Tag, TaggedItem, nextTagId, nextItemId, pending>>

createCollection(c) ==
    /\ StoreRows < MaxStoreRows
    /\ c \notin Collection
    /\ Collection' = Collection \cup {c}
    /\ last' = Call("create", Row("Collection", c), Ok(c))
    /\ UNCHANGED <<Product, Customer, Product_collection, inventory, Product_Promotions,
                   Promotion, Order, OrderItem, Cart, CartItem, Address>>
    /\ UNCHANGED TagStoreVars

(* Product.objects.create(pk=q, collection_id=c, inventory=0, ...) *)
createProduct(q, c) ==
    /\ StoreRows < MaxStoreRows
    /\ q \notin Product
    /\ c \in Collection
    /\ Product' = Product \cup {q}
    /\ Product_collection' = With(Product_collection, q, c)
    /\ inventory' = With(inventory, q, 0)
    /\ last' = Call("create", Row("Product", q), Ok(q))
    /\ UNCHANGED <<Collection, Customer, Product_Promotions,
                   Promotion, Order, OrderItem, Cart, CartItem, Address>>
    /\ UNCHANGED TagStoreVars

createCustomer(cu) ==
    /\ StoreRows < MaxStoreRows
    /\ cu \notin Customer
    /\ Customer' = Customer \cup {cu}
    /\ last' = Call("create", Row("Customer", cu), Ok(cu))
    /\ UNCHANGED <<Collection, Product, Product_collection, inventory, Product_Promotions,
                   Promotion, Order, OrderItem, Cart, CartItem, Address>>
    /\ UNCHANGED TagStoreVars

(* Promotion.objects.create(pk=pr, products_id=q or None, ...) *)
createPromotion(pr, q) ==
    /\ StoreRows < MaxStoreRows
    /\ pr \notin Ids(Promotion)
    /\ q = NULL \/ q \in Product
    /\ Promotion' = Promotion \cup {[id |-> pr, products |-> q]}
    /\ last' = Call("create", Row("Promotion", pr), Ok(pr))
    /\ UNCHANGED <<Collection, Product, Customer, Product_collection, inventory,
                   Product_Promotions, Order, OrderItem, Cart, CartItem, Address>>
    /\ UNCHANGED TagStoreVars

(* product.Promotions.add(promotion) *)
addPromotion(q, pr) ==
    /\ StoreRows < MaxStoreRows
    /\ q \in Product
    /\ pr \in Ids(Promotion)
    /\ [product |-> q, promotion |-> pr] \notin Product_Promotions
    /\ Product_Promotions' = Product_Promotions \cup {[product |-> q, promotion |-> pr]}
    /\ last' = Call("add", Row("Product_Promotions", q), Ok(pr))
    /\ UNCHANGED <<Collection, Product, Customer, Product_collection, inventory,
                   Promotion, Order, OrderItem, Cart, CartItem, Address>>
    /\ UNCHANGED TagStoreVars

createOrder(o, cu) ==
    /\ StoreRows < MaxStoreRows
    /\ o \notin Ids(Order)
    /\ cu \in Customer
    /\ Order' = Order \cup {[id |-> o, customer |-> cu]}
    /\ last' = Call("create", Row("Order", o), Ok(o))
    /\ UNCHANGED <<Collection, Product, Customer, Product_collection, inventory,
                   Product_Promotions, Promotion, OrderItem, Cart, CartItem, Address>>
    /\ UNCHANGED TagStoreVars

createOrderItem(i, o, q) ==
    /\ StoreRows < MaxStoreRows
    /\ i \notin Ids(OrderItem)
    /\ o \in Ids(Order)
    /\ q \in Product
    /\ OrderItem' = OrderItem \cup {[id |-> i, order |-> o, product |-> q]}
    /\ last' = Call("create", Row("OrderItem", i), Ok(i))
    /\ UNCHANGED <<Collection, Product, Customer, Product_collection, inventory,
                   Product_Promotions, Promotion, Order, Cart, CartItem, Address>>
    /\ UNCHANGED TagStoreVars

createCart(c) ==
    /\ StoreRows < MaxStoreRows
    /\ c \notin Cart
    /\ Cart' = Cart \cup {c}
    /\ last' = Call("create", Row("Cart", c), Ok(c))
    /\ UNCHANGED <<Collection, Product, Customer, Product_collection, inventory,
                   Product_Promotions, Promotion, Order, OrderItem, CartItem, Address>>
    /\ UNCHANGED TagStoreVars

createCartItem(i, c, q) ==
    /\ StoreRows < MaxStoreRows
    /\ i \notin Ids(CartItem)
    /\ c \in Cart
    /\ q \in Product
    /\ CartItem' = CartItem \cup {[id |-> i, cart |-> c, product |-> q]}
    /\ last' = Call("create", Row("CartItem", i), Ok(i))
    /\ UNCHANGED <<Collection, Product, Customer, Product_collection, inventory,
                   Product_Promotions, Promotion, Order, OrderItem, Cart, Address>>
    /\ UNCHANGED TagStoreVars

createAddress(a, cu) ==
    /\ StoreRows < MaxStoreRows
    /\ a \notin Ids(Address)
    /\ cu \in Customer
    /\ Address' = Address \cup {[id |-> a, customer |-> cu]}
    /\ last' = Call("create", Row("Address", a), Ok(a))
    /\ UNCHANGED <<Collection, Product, Customer, Product_collection, inventory,
                   Product_Promotions, Promotion, Order, OrderItem, Cart, CartItem>>
    /\ UNCHANGED TagStoreVars

(* A delete the collector refuses: nothing is written *)
Refused(model, pk) ==
    /\ last' = Call("delete", Row(model, pk), Err("ProtectedError"))
    /\ UNCHANGED <<Product, Customer, ShopVars>>
    /\ UNCHANGED TagStoreVars

(* A delete that went through, n rows in all *)
Deleted(model, pk, n) ==
    /\ last' = Call("delete", Row(model, pk), Ok(n))
    /\ UNCHANGED <<Tag, nextTagId, nextItemId, pending>>

deleteCollection(c) ==
    /\ c \in Collection
    /\ IF CollectionProtectedBy(c) # {}
       THEN Refused("Collection", c)
       ELSE /\ Collection' = Collection \ {c}
            /\ Deleted("Collection", c, 1)
            /\ UNCHANGED <<TaggedItem, Product, Customer, Product_collection, inventory,
                           Product_Promotions, Promotion, Order, OrderItem, Cart,
                           CartItem, Address>>

deleteProduct(q) ==
    /\ q \in Product
    /\ IF ProductProtectedBy(q) # {}
       THEN Refused("Product", q)
       ELSE /\ Product' = Product \ {q}
            /\ Product_collection' = Without(Product_collection, q)
            /\ inventory' = Without(inventory, q)
            /\ CartItem' = CartItem \ ProductCascade(q)
            /\ Product_Promotions' = Product_Promotions \ Product_promotions_rows(q)
            /\ Promotion' = ProductSetNull(q)
            /\ TaggedItem' = TaggedItem \ TargetCascade("product", q)
            /\ Deleted("Product", q, 1 + Cardinality(ProductCascade(q))
                                       + Cardinality(Product_promotions_rows(q)))
            /\ UNCHANGED <<Collection, Customer, Order, OrderItem, Cart, Address>>

deleteCustomer(cu) ==
    /\ cu \in Customer
    /\ IF CustomerProtectedBy(cu) # {}
       THEN Refused("Customer", cu)
       ELSE /\ Customer' = Customer \ {cu}
            /\ Address' = Address \ CustomerCascade(cu)
            /\ TaggedItem' = TaggedItem \ TargetCascade("customer", cu)
            /\ Deleted("Customer", cu, 1 + Cardinality(CustomerCascade(cu)))
            /\ UNCHANGED <<Collection, Product, Product_collection, inventory,
                           Product_Promotions, Promotion, Order, OrderItem, Cart,
                           CartItem>>

deleteOrder(o) ==
    /\ o \in Ids(Order)
    /\ IF OrderProtectedBy(o) # {}
       THEN Refused("Order", o)
       ELSE /\ Order' = {r \in Order : r.id # o}
            /\ Deleted("Order", o, 1)
            /\ UNCHANGED <<TaggedItem, Product, Customer, Collection, Product_collection,
                           inventory, Product_Promotions, Promotion, OrderItem, Cart,
                           CartItem, Address>>

deleteCart(c) ==
    /\ c \in Cart
    /\ Cart' = Cart \ {c}
    /\ CartItem' = CartItem \ CartCascade(c)
    /\ Deleted("Cart", c, 1 + Cardinality(CartCascade(c)))
    /\ UNCHANGED <<TaggedItem, Product, Customer, Collection, Product_collection,
                   inventory, Product_Promotions, Promotion, Order, OrderItem, Address>>

deletePromotion(pr) ==
    /\ pr \in Ids(Promotion)
    /\ Promotion' = {r \in Promotion : r.id # pr}
    /\ Product_Promotions' = Product_Promotions \ Promotion_products_rows(pr)
    /\ Deleted("Promotion", pr, 1 + Cardinality(Promotion_products_rows(pr)))
    /\ UNCHANGED <<TaggedItem, Product, Customer, Collection, Product_collection,
                   inventory, Order, OrderItem, Cart, CartItem, Address>>

(* OrderItem, CartItem and Address rows are referenced by nothing *)
deleteOrderItem(i) ==
    /\ i \in Ids(OrderItem)
    /\ OrderItem' = {r \in OrderItem : r.id # i}
    /\ Deleted("OrderItem", i, 1)
    /\ UNCHANGED <<TaggedItem, Product, Customer, Collection, Product_collection,
                   inventory, Product_Promotions, Promotion, Order, Cart, CartItem,
                   Address>>

deleteCartItem(i) ==
    /\ i \in Ids(CartItem)
    /\ CartItem' = {r \in CartItem : r.id # i}
    /\ Deleted("CartItem", i, 1)
    /\ UNCHANGED <<TaggedItem, Product, Customer, Collection, Product_collection,
                   inventory, Product_Promotions, Promotion, Order, OrderItem, Cart,
                   Address>>

deleteAddress(a) ==
    /\ a \in Ids(Address)
    /\ Address' = {r \in Address : r.id # a}
    /\ Deleted("Address", a, 1)
    /\ UNCHANGED <<TaggedItem, Product, Customer, Collection, Product_collection,
                   inventory, Product_Promotions, Promotion, Order, OrderItem, Cart,
                   CartItem>>

(* The three lookups, called by a client *)
tagsForCall(ct, oid) ==
    /\ last' = Call("tagsFor", Triple(0, ct, oid), tagsFor(ct, oid))
    /\ UNCHANGED <<Tag, TaggedItem, Product, Customer, nextTagId, nextItemId, pending>>
    /\ UNCHANGED ShopVars

itemsForCall(t, ct) ==
    /\ last' = Call("itemsFor", Triple(t, ct, 0), itemsFor(t, ct))
    /\ UNCHANGED <<Tag, TaggedItem, Product, Customer, nextTagId, nextItemId, pending>>
    /\ UNCHANGED ShopVars

resolveCall(ct, oid) ==
    /\ last' = Call("resolve", Triple(0, ct, oid), resolve(ct, oid))
    /\ UNCHANGED <<Tag, TaggedItem, Product, Customer, nextTagId, nextItemId, pending>>
    /\ UNCHANGED ShopVars

Next ==
    \/ \E l \in Labels : createTag(l)
    \/ \E t \in TagIds : deleteTag(t)
    \/ \E t \in TagIds, ct \in TargetTypes, oid \in TargetIds : tag(t, ct, oid)
    \/ \E t \in TagIds, ct \in TargetTypes, oid \in TargetIds : untag(t, ct, oid)

Spec == Init /\ [][Next]_vars

(* The tag store next to the catalogue: Products are filed under a
   Collection, tagged, and deleted *)
NextTargets ==
    \/ \E l \in Labels : createTag(l)
    \/ \E t \in TagIds : deleteTag(t)
    \/ \E t \in TagIds, ct \in TargetTypes, oid \in TargetIds : tag(t, ct, oid)
    \/ \E t \in TagIds, ct \in TargetTypes, oid \in TargetIds : untag(t, ct, oid)
    \/ \E c \in CatalogPks : createCollection(c)
    \/ \E q \in TargetIds, c \in CatalogPks : createProduct(q, c)
    \/ \E q \in TargetIds : deleteProduct(q)

SpecTargets == Init /\ [][NextTargets]_vars

(* The store with clients that tag and untag entities of the registered
   types and call the three lookups with any target type *)
NextLookup ==
    \/ \E l \in Labels : createTag(l)
    \/ \E t \in TagIds : deleteTag(t)
    \/ \E t \in TagIds, ct \in ContentType, oid \in TargetIds : tag(t, ct, oid)
    \/ \E t \in TagIds, ct \in ContentType, oid \in TargetIds : untag(t, ct, oid)
    \/ \E c \in CatalogPks : createCollection(c)
    \/ \E q \in TargetIds, c \in CatalogPks : createProduct(q, c)
    \/ \E q \in TargetIds : deleteProduct(q)
    \/ \E ct \in TargetTypes, oid \in TargetIds : tagsForCall(ct, oid)
    \/ \E t \in TagIds, ct \in TargetTypes : itemsForCall(t, ct)
    \/ \E ct \in TargetTypes, oid \in TargetIds : resolveCall(ct, oid)

SpecLookup == Init /\ [][NextLookup]_vars

----------------------------------------------------------------------------
(* Several callers, each call one atomic unit against the shared tables:
   a caller issues a tag() request, and the datastore executes the
   requests one at a time in any order. *)

issueTag(c, t, ct, oid) ==
    /\ pending[c] = None
    /\ pending' = [pending EXCEPT ![c] = Triple(t, ct, oid)]
    /\ UNCHANGED <<Tag, TaggedItem, Product, Customer, nextTagId, nextItemId, last>>
    /\ UNCHANGED ShopVars

execTag(c) ==
    /\ pending[c] # None
    /\ DoTag(pending[c].tag_id, pending[c].content_type, pending[c].object_id)
    /\ pending' = [pending EXCEPT ![c] = None]

NextConc ==
    \/ \E l \in Labels : createTag(l)
    \/ \E c \in Callers, t \in TagIds, ct \in ContentType, oid \in TargetIds :
           issueTag(c, t, ct, oid)
    \/ \E c \in Callers : execTag(c)

SpecConc == Init /\ [][NextConc]_vars

----------------------------------------------------------------------------
(* The admin list of Product: ProductAdmin.inventory_status *)

(* inventory = models.IntegerField(), within the bound of the model *)
InventoryValues == (0 - MaxInventory)..MaxInventory

(* Mutation: the comparison written <= *)
inventory_status_Inclusive(product_inventory) ==
    IF product_inventory <= 10 THEN "Low" ELSE "OK"

(* def inventory_status(self, product) *)
inventory_status(product_inventory) ==
    IF product_inventory < 10 THEN "Low" ELSE "OK"

(* The Product rows the admin lists, each with some inventory *)
InitAdmin ==
    /\ Tag = {}
    /\ TaggedItem = {}
    /\ Product = TargetIds
    /\ Customer = {}
    /\ nextTagId = 1
    /\ nextItemId = 1
    /\ last = Call("init", None, Ok(0))
    /\ pending = [c \in Callers |-> None]
    /\ Collection = {1}
    /\ Product_collection = [p \in TargetIds |-> 1]
    /\ inventory \in [TargetIds -> InventoryValues]
    /\ Product_Promotions = {}
    /\ Promotion = {}
    /\ Order = {}
    /\ OrderItem = {}
    /\ Cart = {}
    /\ CartItem = {}
    /\ Address = {}

(* The list view renders the inventory_status column of product p *)
inventory_statusCall(p) ==
    /\ p \in Product
    /\ last' = Call("inventory_status", Triple(0, "product", p),
                    Ok(inventory_status(inventory[p])))
    /\ UNCHANGED <<Tag, TaggedItem, Product, Customer, nextTagId, nextItemId, pending>>
    /\ UNCHANGED ShopVars

(* product.inventory = n; product.save() *)
saveInventory(p, n) ==
    /\ p \in Product
    /\ inventory' = [inventory EXCEPT ![p] = n]
    /\ last' = Call("saveInventory", Triple(0, "product", p), Ok(n))
    /\ UNCHANGED <<Tag, TaggedItem, Product, Customer, nextTagId, nextItemId, pending>>
    /\ UNCHANGED <<Collection, Product_collection, Product_Promotions,
                   Promotion, Order, OrderItem, Cart, CartItem, Address>>

NextAdmin ==
    \/ \E p \in TargetIds : inventory_statusCall(p)
    \/ \E p \in TargetIds, n \in InventoryValues : saveInventory(p, n)

SpecAdmin == InitAdmin /\ [][NextAdmin]_vars

----------------------------------------------------------------------------
(* Every create and delete on the store tables *)

NextStore ==
    \/ \E c \in Pks : createCollection(c)
    \/ \E q \in TargetIds, c \in Pks : createProduct(q, c)
    \/ \E cu \in Pks : createCustomer(cu)
    \/ \E pr \in Pks, q \in TargetIds \cup {NULL} : createPromotion(pr, q)
    \/ \E q \in TargetIds, pr \in Pks : addPromotion(q, pr)
    \/ \E o \in Pks, cu \in Pks : createOrder(o, cu)
    \/ \E i \in Pks, o \in Pks, q \in TargetIds : createOrderItem(i, o, q)
    \/ \E c \in Pks : createCart(c)
    \/ \E i \in Pks, c \in Pks, q \in TargetIds : createCartItem(i, c, q)
    \/ \E a \in Pks, cu \in Pks : createAddress(a, cu)
    \/ \E c \in Pks : deleteCollection(c)
    \/ \E q \in TargetIds : deleteProduct(q)
    \/ \E cu \in Pks : deleteCustomer(cu)
    \/ \E o \in Pks : deleteOrder(o)
    \/ \E c \in Pks : deleteCart(c)
    \/ \E pr \in Pks : deletePromotion(pr)
    \/ \E i \in Pks : deleteOrderItem(i)
    \/ \E i \in Pks : deleteCartItem(i)
    \/ \E a \in Pks : deleteAddress(a)

SpecStore == Init /\ [][NextStore]_vars

----------------------------------------------------------------------------
(* Properties *)

Matches(r, a) ==
    /\ r.tag_id = a.tag_id
    /\ r.content_type = a.content_type
    /\ r.object_id = a.object_id

Triples == {Triple(t, ct, oid) : t \in TagIds, ct \in TargetTypes, oid \in TargetIds}

(* Number of times x occurs in the bag a lookup returned *)
Copies(x, res) == IF x \in DOMAIN res.val THEN res.val[x] ELSE 0

(* tagsFor(type, E) succeeds and includes tag T *)
Includes(a) ==
    /\ tagsFor(a.content_type, a.object_id).err = "none"
    /\ a.tag_id \in DOMAIN tagsFor(a.content_type, a.object_id).val

(* The set of target ids itemsFor(T, type) returns *)
ItemSet(t, ct) == DOMAIN itemsFor(t, ct).val

StoreVars == <<Tag, TaggedItem, Product, Customer, nextTagId, nextItemId>>

(* C1: a step that deletes Tag T leaves no TaggedItem row of T, so that
   itemsFor(T, type) is empty for every registered type, and leaves the
   rows of every other tag as they were. *)
C1_DeleteTagCascades ==
    [][\A t \in TagIds : (t \in TagPks /\ t \notin TagPks') =>
          /\ \A ct \in ContentType :
                /\ itemsFor(t, ct)'.err = "none"
                /\ DOMAIN itemsFor(t, ct)'.val = {}
          /\ \A r \in TaggedItem' : r.tag_id # t
          /\ {r \in TaggedItem' : r.tag_id # t} = {r \in TaggedItem : r.tag_id # t}]_vars

(* A Tag carrying rows was deleted while rows of another tag remain *)
C1_Witness ==
    /\ last.op = "deleteTag"
    /\ last.val > 0
    /\ TaggedItem # {}

(* C2: in every state reachable by createTag, deleteTag, tag, untag and
   the creation and deletion of target entities, every TaggedItem row
   references a Tag row that exists. *)
C2_TagReferenceExists ==
    \A r \in TaggedItem : \E t \in Tag : t.id = r.tag_id

(* A tag was deleted together with one of its rows, a later tag() on its id
   was refused, and a row of a live tag exists whose Product is not stored
   while another Product is *)
C2_Witness ==
    /\ last.op = "tag"
    /\ last.err = "NotFoundError"
    /\ last.args.tag_id < nextTagId
    /\ Cardinality(TaggedItem) < nextItemId - 1
    /\ Product # {}
    /\ \E r \in TaggedItem : r.content_type = "product" /\ r.object_id \notin Product

(* C3: after a successful tag(T, type, E), tagsFor(type, E) includes T
   exactly once, also when the triple was already associated. *)
C3_TagExactlyOnce ==
    (last.op = "tag" /\ last.err = "none") =>
        Copies(last.args.tag_id,
               tagsFor(last.args.content_type, last.args.object_id)) = 1

(* C4: right after untag(T, type, E), tagsFor(type, E) does not include T;
   tagsFor(type, E) includes T exactly while a row of (T, type, E) exists,
   and a row of (T, type, E) appears only in a tag(T, type, E) step: so T
   stays out of tagsFor(type, E) until a later tag(T, type, E). *)
C4_UntagRemovesTag ==
    /\ [](last.op = "untag" => ~Includes(last.args))
    /\ [](\A a \in Triples :
             Includes(a) <=> \E r \in TaggedItem : Matches(r, a))
    /\ [][\A r \in TaggedItem' \ TaggedItem :
             /\ last'.op = "tag"
             /\ Matches(r, last'.args)]_vars

(* untag removed a tag that had been applied twice to the same entity *)
C4_Witness ==
    /\ last.op = "untag"
    /\ last.val = TRUE
    /\ nextItemId - 1 >= 2
    /\ TaggedItem = {}

(* C5: untag returns true exactly when a row of the triple existed before
   the call, never an error; it changes no Tag, removes no row of another
   triple, and changes nothing at all when no row of the triple existed. *)
C5_UntagReturn ==
    [][last'.op = "untag" =>
          LET a == last'.args IN
          /\ last'.err = "none"
          /\ last'.val = (\E r \in TaggedItem : Matches(r, a))
          /\ Tag' = Tag
          /\ TaggedItem' \subseteq TaggedItem
          /\ {r \in TaggedItem' : ~Matches(r, a)} = {r \in TaggedItem : ~Matches(r, a)}
          /\ (~\E r \in TaggedItem : Matches(r, a)) => StoreVars' = StoreVars]_vars

(* untag removed a row while the same tag stays on the same id under the
   other target type *)
C5_Witness ==
    /\ last.op = "untag"
    /\ last.val = TRUE
    /\ \E r \in TaggedItem :
          /\ r.tag_id = last.args.tag_id
          /\ r.object_id = last.args.object_id
          /\ r.content_type # last.args.content_type

(* C6: tag() with a tag_id that references no existing Tag fails with
   NotFoundError and leaves every table as it was. *)
C6_TagMissingTag ==
    [][(last'.op = "tag" /\ last'.args.tag_id \notin TagPks) =>
          /\ last'.err = "NotFoundError"
          /\ StoreVars' = StoreVars]_vars

(* tag() was refused for the id of a tag that had been created and deleted *)
C6_Witness ==
    /\ last.op = "tag"
    /\ last.err = "NotFoundError"
    /\ last.args.tag_id < nextTagId
    /\ last.args.content_type \in ContentType

(* C7: a lookup on an unregistered target type fails with
   ConfigurationError; a lookup on a registered type succeeds, and returns
   "not found" / the empty result when the identifier has no row. *)
C7_LookupErrors ==
    last.op \in {"resolve", "tagsFor", "itemsFor"} =>
        IF last.args.content_type \notin ContentType
        THEN last.err = "ConfigurationError"
        ELSE /\ last.err = "none"
             /\ last.op = "resolve" =>
                   (last.val.found <=>
                       last.args.object_id \in ModelClass(last.args.content_type))
             /\ last.op = "tagsFor" =>
                   ((~\E r \in TaggedItem :
                         /\ r.content_type = last.args.content_type
                         /\ r.object_id = last.args.object_id)
                       => DOMAIN last.val = {})
             /\ last.op = "itemsFor" =>
                   ((~\E r \in TaggedItem :
                         /\ r.content_type = last.args.content_type
                         /\ r.tag_id = last.args.tag_id)
                       => DOMAIN last.val = {})

(* A lookup on the unregistered type failed while rows and entities exist *)
C7_Witness ==
    /\ last.op \in {"resolve", "tagsFor", "itemsFor"}
    /\ last.args.content_type \notin ContentType
    /\ last.err = "ConfigurationError"
    /\ TaggedItem # {}
    /\ Product # {}

(* C8: deleting a target entity deletes no TaggedItem row; whenever a row
   names an entity that does not exist, tagsFor still returns its tag and
   resolve returns "not found" without error. *)
C8_NoTargetCascade ==
    /\ [][last'.op = "delete" /\ last'.args.model = "Product" =>
             TaggedItem' = TaggedItem]_vars
    /\ [](\A r \in TaggedItem :
             r.object_id \notin ModelClass(r.content_type) =>
                 /\ Includes(Triple(r.tag_id, r.content_type, r.object_id))
                 /\ resolve(r.content_type, r.object_id).err = "none"
                 /\ ~resolve(r.content_type, r.object_id).val.found)

(* A tagged Product was deleted and its TaggedItem row is still there *)
C8_Witness ==
    /\ last.op = "delete"
    /\ last.args.model = "Product"
    /\ last.err = "none"
    /\ last.args.pk \notin Product
    /\ \E r \in TaggedItem :
          /\ r.content_type = "product"
          /\ r.object_id = last.args.pk

(* C9: itemsFor(T, type) is the set of target ids of the rows with tag T
   and that type: a successful tag(T, type, E) adds E to it, untag(T, type,
   E) removes E from it, and a step that changes the rows changes the
   result for no other tag and no other type. *)
C9_ItemsFor ==
    /\ [](\A t \in TagIds, ct \in ContentType :
             /\ itemsFor(t, ct).err = "none"
             /\ ItemSet(t, ct) =
                   {r.object_id : r \in {q \in TaggedItem :
                                           q.tag_id = t /\ q.content_type = ct}})
    /\ [][(last'.op \in {"tag", "untag"} /\ last'.err = "none") =>
             /\ \A t \in {last'.args.tag_id} \cap TagIds,
                   ct \in {last'.args.content_type} \cap ContentType :
                    ItemSet(t, ct)' =
                        IF last'.op = "tag"
                        THEN ItemSet(t, ct) \cup {last'.args.object_id}
                        ELSE ItemSet(t, ct) \ {last'.args.object_id}
             /\ TaggedItem' # TaggedItem =>
                    \A t \in TagIds, ct \in ContentType :
                        (t # last'.args.tag_id \/ ct # last'.args.content_type)
                            => ItemSet(t, ct)' = ItemSet(t, ct)]_vars

(* Tag 1 was on products 42 and 7, untag(1, product, 42) left {7} *)
C9_Witness ==
    /\ last.op = "untag"
    /\ last.args = Triple(1, "product", 42)
    /\ last.val = TRUE
    /\ ItemSet(1, "product") = {7}

(* C10: once every concurrently issued tag() call has executed, no triple
   (T, type, E) has more than one TaggedItem row. *)
C10_NoDuplicateRows ==
    (\A c \in Callers : pending[c] = None) =>
        \A a \in Triples :
            Cardinality({r \in TaggedItem : Matches(r, a)}) <= 1

(* Every non-null foreign key of the store tables refers to an existing row *)
ForeignKeysOk ==
    /\ \A q \in Product : Product_collection[q] \in Collection
    /\ \A r \in Promotion : r.products = NULL \/ r.products \in Product
    /\ \A r \in Order : r.customer \in Customer
    /\ \A r \in OrderItem : r.order \in Ids(Order) /\ r.product \in Product
    /\ \A r \in CartItem : r.cart \in Cart /\ r.product \in Product
    /\ \A r \in Address : r.customer \in Customer
    /\ \A r \in Product_Promotions :
           r.product \in Product /\ r.promotion \in Ids(Promotion)

(* The row pk of the table model is referenced through a PROTECT foreign key *)
ProtectReferenced(model, pk) ==
    \/ model = "Collection" /\ \E q \in Product : Product_collection[q] = pk
    \/ model = "Customer" /\ \E r \in Order : r.customer = pk
    \/ model = "Order" /\ \E r \in OrderItem : r.order = pk
    \/ model = "Product" /\ \E r \in OrderItem : r.product = pk

(* The row pk of the table model is stored *)
RowExists(model, pk) ==
    \/ model = "Collection" /\ pk \in Collection
    \/ model = "Customer" /\ pk \in Customer
    \/ model = "Order" /\ pk \in Ids(Order)
    \/ model = "Product" /\ pk \in Product
    \/ model = "Cart" /\ pk \in Cart
    \/ model = "Promotion" /\ pk \in Ids(Promotion)
    \/ model = "OrderItem" /\ pk \in Ids(OrderItem)
    \/ model = "CartItem" /\ pk \in Ids(CartItem)
    \/ model = "Address" /\ pk \in Ids(Address)

StoreTables ==
    <<Collection, Product, Product_collection, inventory, Customer, Promotion,
      Product_Promotions, Order, OrderItem, Cart, CartItem, Address>>

(* C11: after any sequence of creates and deletes on the store tables every
   non-null foreign key refers to an existing row; deleting a Customer
   deletes its Addresses, deleting a Cart or a Product deletes its
   CartItems, deleting a Product nulls Promotion.products; a delete of a
   Collection, Customer, Order or Product that is referenced through a
   PROTECT foreign key is rejected and leaves every row unchanged, the rows
   it would have cascaded to included, and no other delete is rejected. *)
C11_ForeignKeyIntegrity ==
    /\ []ForeignKeysOk
    /\ [][last'.op = "delete" =>
             \A m \in {last'.args.model}, k \in {last'.args.pk} :
                /\ RowExists(m, k)
                /\ last'.err = "ProtectedError" <=> ProtectReferenced(m, k)
                /\ last'.err = "ProtectedError" => StoreTables' = StoreTables
                /\ last'.err # "ProtectedError" =>
                      /\ last'.err = "none"
                      /\ ~RowExists(m, k)'
                      /\ m = "Customer" =>
                            Address' = {r \in Address : r.customer # k}
                      /\ m = "Cart" =>
                            CartItem' = {r \in CartItem : r.cart # k}
                      /\ m = "Product" =>
                            /\ CartItem' = {r \in CartItem : r.product # k}
                            /\ Ids(Promotion') = Ids(Promotion)
                            /\ \A r \in Promotion' : r.products # k
                            /\ \A r \in Promotion : r.products # k => r \in Promotion'
                            /\ OrderItem' = OrderItem]_vars

(* A Product that is in an OrderItem and in a CartItem was not deleted: the
   delete was rejected, and the CartItem the delete would have cascaded to
   is still stored *)
C11_Witness ==
    /\ last.op = "delete"
    /\ last.args.model = "Product"
    /\ last.err = "ProtectedError"
    /\ last.args.pk \in Product
    /\ \E r \in OrderItem : r.product = last.args.pk
    /\ \E r \in CartItem : r.product = last.args.pk

(* C12: inventory_status returns "Low" for every product whose inventory
   is below 10, zero and negative values included, "OK" for every product
   whose inventory is 10 or more, nothing else, and the call changes no
   column of any product. *)
C12_InventoryStatus ==
    /\ [](last.op = "inventory_status" =>
             /\ last.err = "none"
             /\ last.val \in {"Low", "OK"}
             /\ inventory[last.args.object_id] < 10 => last.val = "Low"
             /\ inventory[last.args.object_id] >= 10 => last.val = "OK")
    /\ [][last'.op = "inventory_status" =>
             /\ inventory' = inventory
             /\ Product' = Product
             /\ Product_collection' = Product_collection]_vars

(* The status of a product with a negative inventory was rendered as Low
   while the other product, with an inventory of exactly 10, is not low *)
C12_Witness ==
    /\ last.op = "inventory_status"
    /\ inventory[last.args.object_id] < 0
    /\ last.val = "Low"
    /\ \E p \in Product : inventory[p] = 10 /\ inventory_status(inventory[p]) = "OK"

====
